---- MODULE Spec2Model ----
(***************************************************************************)
(* Order placement and point settlement of the-outpost-be (Express +       *)
(* Prisma + PostgreSQL).  The store is the committed content of the        *)
(* Product, User, Order and OrderItem tables; every HTTP request is a      *)
(* process that runs its controller statement by statement, and a          *)
(* statement issued inside prisma.$transaction is staged in the request's  *)
(* transaction (row locks, pending writes) until COMMIT or ROLLBACK.       *)
(***************************************************************************)
EXTENDS Integers, Sequences, FiniteSets, TLC

----------------------------------------------------------------------------
(* Bounds of the model *)

MaxQty == 2
MaxLines == 2
MaxAmount == 2
InitPoint == 2

(* Program constant: one loyalty point per 1000 currency units *)
PointUnit == 1000

Requests == {1, 2}
Users == {1, 2}
UserIds == {1, 2, 3}
ProductRows == {1, 2, 3}
ProductIds == {1, 2, 3, 4}

(* Product table at start: 1 and 2 are on sale, 3 is soft-deleted, id 4 has no row *)
InitProduct ==
  (1 :> [price |-> 600, stock |-> 2, deleted |-> FALSE]) @@
  (2 :> [price |-> 1500, stock |-> 1, deleted |-> FALSE]) @@
  (3 :> [price |-> 1000, stock |-> 2, deleted |-> TRUE])

Line == [productId : ProductIds, quantity : 1..MaxQty]
ItemLists == UNION {[1..n -> Line] : n \in 1..MaxLines}

(* A JSON value of a request body as zod sees it: its type, and for a number
   twice its value, so that 1.5 is the number with twice = 3 *)
RawNumber(n) == [type |-> "number", twice |-> 2 * n]

RawHalf(m) == [type |-> "number", twice |-> m]

RawString == [type |-> "string", twice |-> 0]

Undefined == [type |-> "undefined", twice |-> 0]

(* The body that carries the lines of items as JSON numbers *)
RawOf(items) ==
  [i \in 1..Len(items) |-> [productId |-> RawNumber(items[i].productId),
                             quantity |-> RawNumber(items[i].quantity)]]

(* Values the schema refuses: 0, -1, 1.5 and a string *)
BadValues == {RawNumber(0), RawNumber(-1), RawHalf(3), RawString}

GoodLine == [productId |-> RawNumber(1), quantity |-> RawNumber(1)]

BadLines ==
  {[productId |-> v, quantity |-> RawNumber(1)] : v \in BadValues \cup {Undefined}}
    \cup {[productId |-> RawNumber(1), quantity |-> v] : v \in BadValues}

(* Request bodies of createOrder: the item lists as JSON, the empty list, a
   line without quantity, and lists with a refused value in one line *)
Bodies ==
  {RawOf(items) : items \in ItemLists}
    \cup {<<>>, <<[productId |-> RawNumber(1), quantity |-> Undefined]>>}
    \cup {<<b>> : b \in BadLines}
    \cup {<<GoodLine, b>> : b \in BadLines}
    \cup {<<b, GoodLine>> : b \in BadLines}

----------------------------------------------------------------------------
VARIABLES
  product,      \* Product table: row id -> [price, stock, deleted]
  userPoint,    \* User table, column point: user id -> integer
  order,        \* committed Order rows
  orderItem,    \* committed OrderItem rows
  pc,           \* request -> the statement it executes next
  req,          \* request -> its local variables (user, items, products, ...)
  tx,           \* request -> its open transaction: pending writes and row locks
  result,       \* request -> the HTTP response it produced
  hist,         \* request -> facts about its input at validation time (history)
  transferLog,  \* committed point transfers, in commit order (history)
  account,      \* User table, columns email, password, role, deletedAt: id -> row
  passwordResetToken,  \* PasswordResetToken table: rows [id, userId, token, expiresAt]
  now,          \* the clock new Date() reads
  session       \* request -> the token it carries (cookie or Authorization header)

vars == <<product, userPoint, order, orderItem, pc, req, tx, result, hist, transferLog,
          account, passwordResetToken, now, session>>

store == <<product, userPoint, order, orderItem>>

auth == <<account, passwordResetToken, now, session>>

----------------------------------------------------------------------------
(* Local state of a request *)

NoReq ==
  [op |-> "none", user |-> 0, items |-> <<>>, products |-> {},
   total |-> 0, points |-> 0, receiverId |-> 0, amount |-> 0, senderPoint |-> 0,
   productId |-> 0, price |-> 0, stock |-> 0,
   email |-> "", password |-> "", role |-> "", record |-> <<>>]

NoTx ==
  [open |-> FALSE, order |-> <<>>, items |-> <<>>,
   stock |-> [p \in ProductRows |-> 0], point |-> [u \in Users |-> 0],
   rows |-> {}, queue |-> <<>>, seen |-> <<>>, log |-> <<>>]

NoResult == [kind |-> "none", status |-> 0, product |-> 0, body |-> <<>>]

NoHist == [fewer |-> FALSE, unavailable |-> FALSE, someValid |-> FALSE, short |-> 0,
           rolledBack |-> FALSE, raced |-> FALSE, invalid |-> FALSE,
           priceAt |-> [p \in ProductRows |-> 0], self |-> FALSE, overdraw |-> FALSE,
           badAmount |-> FALSE, caller |-> [id |-> 0, role |-> "none"], query |-> <<>>,
           wrote |-> FALSE]

Response(kind, status) == [kind |-> kind, status |-> status, product |-> 0, body |-> <<>>]

----------------------------------------------------------------------------
(* createOrder: pure parts *)

(* z.number().int().positive() *)
PositiveInt(v) == v.type = "number" /\ v.twice % 2 = 0 /\ v.twice > 0

(* Mutant: the schema without .nonempty() *)
OrderSchemaAllowsEmpty(body) ==
  \A i \in 1..Len(body) :
    /\ PositiveInt(body[i].productId)
    /\ body[i].quantity.type = "undefined" \/ PositiveInt(body[i].quantity)

(* orderSchema.safeParse(req.body).success *)
OrderSchemaOk(body) ==
  /\ body # <<>>
  /\ \A i \in 1..Len(body) :
       /\ PositiveInt(body[i].productId)
       /\ body[i].quantity.type = "undefined" \/ PositiveInt(body[i].quantity)

(* body.data.items: the numbers of the lines, quantity defaulting to 1 *)
ParseOrder(body) ==
  [i \in 1..Len(body) |->
     [productId |-> body[i].productId.twice \div 2,
      quantity |-> IF body[i].quantity.type = "undefined" THEN 1
                   ELSE body[i].quantity.twice \div 2]]

(* body.data.items.map((i) => i.productId) *)
ProductIdsOf(items) == [i \in 1..Len(items) |-> items[i].productId]

(* prisma.product.findMany({where: {id: {in: productIds}, deletedAt: null}}) *)
FindManyProducts(prod, productIds) ==
  {[id |-> p, name |-> p, price |-> prod[p].price, stock |-> prod[p].stock] :
     p \in {q \in DOMAIN prod :
              /\ \E i \in 1..Len(productIds) : productIds[i] = q
              /\ ~prod[q].deleted}}

(* Mutant: the request is rejected only when no product at all was found *)
ProductsFoundAny(products, productIds) == Cardinality(products) > 0

(* products.length !== productIds.length is the rejection *)
ProductsFound(products, productIds) == Cardinality(products) = Len(productIds)

(* products.find((p) => p.id === id): the matching rows (none when undefined) *)
Find(products, id) == {p \in products : p.id = id}

(* items.forEach of the stock check: the first line, in input order, whose
   product was found with stock < quantity; 0 when the loop throws nothing *)
FirstShort(items, products) ==
  LET bad == {i \in 1..Len(items) :
                \E p \in Find(products, items[i].productId) : p.stock < items[i].quantity}
  IN IF bad = {} THEN 0 ELSE CHOOSE i \in bad : \A j \in bad : i <= j

(* Mutant: the line total forgets the quantity *)
LineTotalUnit(price, quantity) == price

(* totalPrice: product.price * item.quantity *)
LineTotal(price, quantity) == price * quantity

(* orderItems.reduce((acc, item) => acc + item.totalPrice, 0) *)
RECURSIVE TotalOrderPrice(_)
TotalOrderPrice(rows) ==
  IF rows = <<>> THEN 0 ELSE rows[1].totalPrice + TotalOrderPrice(Tail(rows))

(* Mutant: Math.ceil instead of Math.floor *)
PointsRoundedUp(total) == (total + PointUnit - 1) \div PointUnit

(* Math.floor(totalOrderPrice / 1000) *)
Points(total) == total \div PointUnit

----------------------------------------------------------------------------
(* What the request's input looks like against the store at validation time,
   recorded for the properties (never read by the controller) *)

LiveRows(prod) == {p \in DOMAIN prod : ~prod[p].deleted}

Requested(items) == {items[i].productId : i \in 1..Len(items)}

(* The body has no line, or a line whose productId, or whose quantity when
   it carries one, is not a positive integer *)
EmptyOrBadLine(body) ==
  \/ Len(body) = 0
  \/ \E i \in 1..Len(body) :
       \/ ~PositiveInt(body[i].productId)
       \/ body[i].quantity.type # "undefined" /\ ~PositiveInt(body[i].quantity)

PriceAt(prod, items) ==
  [p \in ProductRows |-> IF p \in Requested(items) THEN prod[p].price ELSE 0]

IsLive(prod, p) == p \in DOMAIN prod /\ ~prod[p].deleted

HistOf(prod, items) ==
  LET n == Len(items)
      ShortAt(i) == /\ IsLive(prod, items[i].productId)
                    /\ items[i].quantity > prod[items[i].productId].stock
  IN [NoHist EXCEPT
      !.fewer = Cardinality({p \in Requested(items) : IsLive(prod, p)})
                  < Cardinality(Requested(items)),
      !.unavailable = \E i \in 1..n : ~IsLive(prod, items[i].productId),
      !.someValid = \E i \in 1..n :
                      /\ IsLive(prod, items[i].productId)
                      /\ items[i].quantity <= prod[items[i].productId].stock,
      !.short = IF \E i \in 1..n : ShortAt(i)
                THEN items[CHOOSE i \in 1..n :
                             ShortAt(i) /\ \A j \in 1..(i - 1) : ~ShortAt(j)].productId
                ELSE 0]

----------------------------------------------------------------------------
(* Row locks of the store: an UPDATE waits while another open transaction
   holds the row *)

LockedByOther(row, r) == \E o \in Requests \ {r} : row \in tx[o].rows

----------------------------------------------------------------------------
(* createOrder, validation phase: parse, findMany, existence and stock checks *)

(* the two rejections of the validation phase, or on to the transaction *)
CreateOrderChecked(r, u, body, items, productIds, products, short) ==
  LET me == [NoReq EXCEPT !.op = "createOrder", !.user = u]
  IN /\ hist' = [hist EXCEPT ![r] =
             [(IF ProductsFound(products, productIds) /\ short = 0
               THEN [HistOf(product, items) EXCEPT !.priceAt = PriceAt(product, items)]
               ELSE HistOf(product, items))
              EXCEPT !.invalid = EmptyOrBadLine(body)]]
        /\ IF ~ProductsFound(products, productIds)
           THEN /\ pc' = [pc EXCEPT ![r] = "done"]
                /\ req' = [req EXCEPT ![r] = me]
                /\ result' = [result EXCEPT ![r] = Response("notFound", 400)]
           ELSE IF short # 0
           THEN /\ pc' = [pc EXCEPT ![r] = "done"]
                /\ req' = [req EXCEPT ![r] = me]
                /\ result' = [result EXCEPT ![r] =
                     [Response("noStock", 400) EXCEPT !.product =
                        (CHOOSE p \in Find(products, items[short].productId) : TRUE).name]]
           ELSE /\ pc' = [pc EXCEPT ![r] = "orderCreate"]
                /\ req' = [req EXCEPT ![r] =
                     [me EXCEPT !.items = items, !.products = products]]
                /\ UNCHANGED result

(* items.forEach: the stock check over the rows findMany returned *)
CreateOrderFound(r, u, body, items, productIds, products) ==
  CreateOrderChecked(r, u, body, items, productIds, products, FirstShort(items, products))

(* prisma.product.findMany({where: {id: {in: productIds}, deletedAt: null}}) *)
CreateOrderParsed(r, u, body, items, productIds) ==
  CreateOrderFound(r, u, body, items, productIds, FindManyProducts(product, productIds))

(* orderSchema.safeParse(req.body); items.map((i) => i.productId) *)
CreateOrder(r, u, body) ==
  /\ pc[r] = "idle"
  /\ IF ~OrderSchemaOk(body)
     THEN /\ hist' = [hist EXCEPT ![r] = [NoHist EXCEPT !.invalid = EmptyOrBadLine(body)]]
          /\ pc' = [pc EXCEPT ![r] = "done"]
          /\ req' = [req EXCEPT ![r] = [NoReq EXCEPT !.op = "createOrder", !.user = u]]
          /\ result' = [result EXCEPT ![r] = Response("invalid", 400)]
     ELSE CreateOrderParsed(r, u, body, ParseOrder(body), ProductIdsOf(ParseOrder(body)))
  /\ UNCHANGED <<store, tx, transferLog, auth>>

(* Order.totalPrice of a row created without one: "total price (integer,
   initially zero)" *)
DefaultTotalPrice == 0

(* Mutant: the lines' updates are issued last line first *)
TxOrderCreateReversed(r) ==
  /\ pc[r] = "orderCreate"
  /\ LET items == req[r].items
         unresolved == \E i \in 1..Len(items) : Find(req[r].products, items[i].productId) = {}
     IN IF unresolved
        THEN /\ pc' = [pc EXCEPT ![r] = "done"]
             /\ tx' = [tx EXCEPT ![r] = NoTx]
             /\ req' = [req EXCEPT ![r] = [NoReq EXCEPT !.op = "createOrder", !.user = req[r].user]]
             /\ result' = [result EXCEPT ![r] = Response("error", 500)]
        ELSE /\ pc' = [pc EXCEPT ![r] = "items"]
             /\ tx' = [tx EXCEPT ![r] =
                  [NoTx EXCEPT !.open = TRUE,
                               !.order = <<[id |-> r, userId |-> req[r].user,
                                            totalPrice |-> DefaultTotalPrice]>>,
                               !.queue = [i \in 1..Len(items) |->
                                            [op |-> "update", line |-> Len(items) + 1 - i]]]]
             /\ UNCHANGED <<req, result>>
  /\ UNCHANGED <<store, hist, transferLog, auth>>

(* prisma.$transaction opens; tx.order.create; then items.map starts every
   line's async function, each of which issues its product.update at once *)
TxOrderCreate(r) ==
  /\ pc[r] = "orderCreate"
  /\ LET items == req[r].items
         unresolved == \E i \in 1..Len(items) : Find(req[r].products, items[i].productId) = {}
     IN IF unresolved
        THEN \* product.id of undefined throws: Promise.all rejects, ROLLBACK
             /\ pc' = [pc EXCEPT ![r] = "done"]
             /\ tx' = [tx EXCEPT ![r] = NoTx]
             /\ req' = [req EXCEPT ![r] = [NoReq EXCEPT !.op = "createOrder", !.user = req[r].user]]
             /\ result' = [result EXCEPT ![r] = Response("error", 500)]
        ELSE /\ pc' = [pc EXCEPT ![r] = "items"]
             /\ tx' = [tx EXCEPT ![r] =
                  [NoTx EXCEPT !.open = TRUE,
                               !.order = <<[id |-> r, userId |-> req[r].user,
                                             totalPrice |-> DefaultTotalPrice]>>,
                               !.queue = [i \in 1..Len(items) |-> [op |-> "update", line |-> i]]]]
             /\ UNCHANGED <<req, result>>
  /\ UNCHANGED <<store, hist, transferLog, auth>>

(* Mutant: the decrement is by one unit, whatever the quantity of the line *)
TxProductUpdateByOne(r) ==
  /\ pc[r] = "items"
  /\ tx[r].queue # <<>>
  /\ Head(tx[r].queue).op = "update"
  /\ LET i == Head(tx[r].queue).line
         item == req[r].items[i]
         p == item.productId
     IN /\ ~LockedByOther(<<"product", p>>, r)
        /\ tx' = [tx EXCEPT ![r] =
             [@ EXCEPT !.stock[p] = @ - 1,
                       !.rows = @ \cup {<<"product", p>>},
                       !.seen = Append(@, product[p].stock + tx[r].stock[p]),
                       !.log = Append(@, [op |-> "update", line |-> i]),
                       !.queue = Append(Tail(@), [op |-> "create", line |-> i])]]
        /\ hist' = [hist EXCEPT ![r].raced =
             @ \/ product[p].stock + tx[r].stock[p] - item.quantity < 0]
  /\ UNCHANGED <<store, pc, req, result, transferLog, auth>>

(* tx.product.update({where: {id}, data: {stock: {decrement: quantity}}}) *)
TxProductUpdate(r) ==
  /\ pc[r] = "items"
  /\ tx[r].queue # <<>>
  /\ Head(tx[r].queue).op = "update"
  /\ LET i == Head(tx[r].queue).line
         item == req[r].items[i]
         p == item.productId
     IN /\ ~LockedByOther(<<"product", p>>, r)
        /\ tx' = [tx EXCEPT ![r] =
             [@ EXCEPT !.stock[p] = @ - item.quantity,
                       !.rows = @ \cup {<<"product", p>>},
                       !.seen = Append(@, product[p].stock + tx[r].stock[p]),
                       !.log = Append(@, [op |-> "update", line |-> i]),
                       !.queue = Append(Tail(@), [op |-> "create", line |-> i])]]
        /\ hist' = [hist EXCEPT ![r].raced =
             @ \/ product[p].stock + tx[r].stock[p] - item.quantity < 0]
  /\ UNCHANGED <<store, pc, req, result, transferLog, auth>>

(* Mutant: every line adds its own total to the order as it is created *)
TxOrderItemCreateAddsTotal(r) ==
  /\ pc[r] = "items"
  /\ tx[r].queue # <<>>
  /\ Head(tx[r].queue).op = "create"
  /\ LET i == Head(tx[r].queue).line
         item == req[r].items[i]
         prd == CHOOSE p \in Find(req[r].products, item.productId) : TRUE
         row == [orderId |-> tx[r].order[1].id, line |-> i, productId |-> prd.id,
                 quantity |-> item.quantity, unitPrice |-> prd.price,
                 totalPrice |-> LineTotal(prd.price, item.quantity),
                 stockBefore |-> tx[r].seen[i]]
     IN /\ tx' = [tx EXCEPT ![r] =
             [@ EXCEPT !.items = Append(@, row), !.queue = Tail(@),
                       !.order[1].totalPrice = @ + row.totalPrice,
                       !.log = Append(@, [op |-> "create", line |-> i])]]
        /\ pc' = [pc EXCEPT ![r] =
             IF Len(tx[r].queue) = 1 THEN "orderUpdate" ELSE "items"]
  /\ UNCHANGED <<store, req, result, hist, transferLog, auth>>

(* Mutant: the order item takes the price the product has when the item is
   created instead of the price read by findMany *)
TxOrderItemCreateCurrentPrice(r) ==
  /\ pc[r] = "items"
  /\ tx[r].queue # <<>>
  /\ Head(tx[r].queue).op = "create"
  /\ LET i == Head(tx[r].queue).line
         item == req[r].items[i]
         prd == CHOOSE p \in Find(req[r].products, item.productId) : TRUE
         row == [orderId |-> tx[r].order[1].id, line |-> i, productId |-> prd.id,
                 quantity |-> item.quantity, unitPrice |-> product[prd.id].price,
                 totalPrice |-> LineTotal(product[prd.id].price, item.quantity),
                 stockBefore |-> tx[r].seen[i]]
     IN /\ tx' = [tx EXCEPT ![r] =
             [@ EXCEPT !.items = Append(@, row), !.queue = Tail(@),
                       !.log = Append(@, [op |-> "create", line |-> i])]]
        /\ pc' = [pc EXCEPT ![r] =
             IF Len(tx[r].queue) = 1 THEN "orderUpdate" ELSE "items"]
  /\ UNCHANGED <<store, req, result, hist, transferLog, auth>>

(* tx.orderItem.create({data: {orderId, productId, quantity, unitPrice, totalPrice}}) *)
TxOrderItemCreate(r) ==
  /\ pc[r] = "items"
  /\ tx[r].queue # <<>>
  /\ Head(tx[r].queue).op = "create"
  /\ LET i == Head(tx[r].queue).line
         item == req[r].items[i]
         prd == CHOOSE p \in Find(req[r].products, item.productId) : TRUE
         row == [orderId |-> tx[r].order[1].id, line |-> i, productId |-> prd.id,
                 quantity |-> item.quantity, unitPrice |-> prd.price,
                 totalPrice |-> LineTotal(prd.price, item.quantity),
                 stockBefore |-> tx[r].seen[i]]
     IN /\ tx' = [tx EXCEPT ![r] =
             [@ EXCEPT !.items = Append(@, row), !.queue = Tail(@),
                       !.log = Append(@, [op |-> "create", line |-> i])]]
        /\ pc' = [pc EXCEPT ![r] =
             IF Len(tx[r].queue) = 1 THEN "orderUpdate" ELSE "items"]
  /\ UNCHANGED <<store, req, result, hist, transferLog, auth>>

(* tx.order.update({data: {totalPrice: {increment: totalOrderPrice}}}) *)
TxOrderUpdate(r) ==
  /\ pc[r] = "orderUpdate"
  /\ LET totalOrderPrice == TotalOrderPrice(tx[r].items)
     IN /\ tx' = [tx EXCEPT ![r] =
             [@ EXCEPT !.order[1].totalPrice = @ + totalOrderPrice,
                       !.log = Append(@, [op |-> "total", line |-> 0])]]
        /\ req' = [req EXCEPT ![r].total = totalOrderPrice]
  /\ pc' = [pc EXCEPT ![r] = "userUpdate"]
  /\ UNCHANGED <<store, result, hist, transferLog, auth>>

(* tx.user.update({where: {id: user.id}, data: {point: {increment: points}}}) *)
TxUserUpdate(r) ==
  /\ pc[r] = "userUpdate"
  /\ ~LockedByOther(<<"user", req[r].user>>, r)
  /\ LET points == Points(req[r].total)
     IN /\ tx' = [tx EXCEPT ![r] =
             [@ EXCEPT !.point[req[r].user] = @ + points,
                       !.rows = @ \cup {<<"user", req[r].user>>}]]
        /\ req' = [req EXCEPT ![r].points = points]
  /\ pc' = [pc EXCEPT ![r] = "commit"]
  /\ UNCHANGED <<store, result, hist, transferLog, auth>>

(* COMMIT: the pending writes of the transaction become the store's *)
CommitProduct(prod, t) == [p \in DOMAIN prod |-> [prod[p] EXCEPT !.stock = @ + t.stock[p]]]

CommitPoint(pts, t) == [u \in DOMAIN pts |-> pts[u] + t.point[u]]

Range(seq) == {seq[i] : i \in 1..Len(seq)}

(* Mutant: the callback returns the order as tx.order.create gave it, before
   the total was written *)
TxCommitStaleOrder(r) ==
  /\ pc[r] = "commit"
  /\ product' = CommitProduct(product, tx[r])
  /\ userPoint' = CommitPoint(userPoint, tx[r])
  /\ order' = order \cup Range(tx[r].order)
  /\ orderItem' = orderItem \cup Range(tx[r].items)
  /\ result' = [result EXCEPT ![r] =
       [Response("created", 201) EXCEPT !.body =
          <<[id |-> tx[r].order[1].id, userId |-> tx[r].order[1].userId,
             totalPrice |-> DefaultTotalPrice, points |-> req[r].points,
             items |-> [i \in 1..Len(tx[r].items) |->
                          [productId |-> tx[r].items[i].productId,
                           quantity |-> tx[r].items[i].quantity,
                           unitPrice |-> tx[r].items[i].unitPrice,
                           totalPrice |-> tx[r].items[i].totalPrice]]]>>]]
  /\ tx' = [tx EXCEPT ![r] = NoTx]
  /\ req' = [req EXCEPT ![r] = [NoReq EXCEPT !.op = "createOrder", !.user = req[r].user]]
  /\ pc' = [pc EXCEPT ![r] = "done"]
  /\ UNCHANGED <<hist, transferLog, auth>>

(* The callback returns {...newOrderWithTotalPrice, points, items}; the
   transaction commits; res.status(201).json({order}) *)
TxCommit(r) ==
  /\ pc[r] = "commit"
  /\ product' = CommitProduct(product, tx[r])
  /\ userPoint' = CommitPoint(userPoint, tx[r])
  /\ order' = order \cup Range(tx[r].order)
  /\ orderItem' = orderItem \cup Range(tx[r].items)
  /\ result' = [result EXCEPT ![r] =
       [Response("created", 201) EXCEPT !.body =
          <<[id |-> tx[r].order[1].id, userId |-> tx[r].order[1].userId,
             totalPrice |-> tx[r].order[1].totalPrice, points |-> req[r].points,
             items |-> [i \in 1..Len(tx[r].items) |->
                          [productId |-> tx[r].items[i].productId,
                           quantity |-> tx[r].items[i].quantity,
                           unitPrice |-> tx[r].items[i].unitPrice,
                           totalPrice |-> tx[r].items[i].totalPrice]]]>>]]
  /\ tx' = [tx EXCEPT ![r] = NoTx]
  /\ req' = [req EXCEPT ![r] = [NoReq EXCEPT !.op = "createOrder", !.user = req[r].user]]
  /\ pc' = [pc EXCEPT ![r] = "done"]
  /\ UNCHANGED <<hist, transferLog, auth>>

----------------------------------------------------------------------------
(* transferPoint *)

(* Amounts a caller sends: the numbers up to the bound, and the values the
   schema refuses (0, -1, 1.5, a string, no amount at all) *)
TransferAmounts == {RawNumber(a) : a \in 0..MaxAmount} \cup BadValues \cup {Undefined}

(* Mutant: the amount's schema without .int() *)
TransferSchemaNoInt(receiverId, amount) ==
  receiverId > 0 /\ amount.type = "number" /\ amount.twice > 0

(* transferPointSchema: amount is z.number().int().positive() *)
TransferSchemaOk(receiverId, amount) == receiverId > 0 /\ PositiveInt(amount)

(* parse.data.amount *)
AmountOf(amount) == amount.twice \div 2

(* Mutant: the self-transfer guard is missing *)
SelfTransferNever(senderId, receiverId) == FALSE

(* sender.id === receiver.id *)
SelfTransfer(senderId, receiverId) == senderId = receiverId

(* Mutant: the balance guard lets an amount one above the balance through *)
InsufficientPointsOffByOne(point, amount) == point + 1 < amount

(* sender.point < amount *)
InsufficientPoints(point, amount) == point < amount

(* parse, amount check, prisma.user.findUnique for the sender *)
TransferPoint(r, u, receiverId, amount) ==
  /\ pc[r] = "idle"
  /\ hist' = [hist EXCEPT ![r] =
       [NoHist EXCEPT !.self = (receiverId = u),
                      !.overdraw = (PositiveInt(amount) /\ AmountOf(amount) > userPoint[u]),
                      !.badAmount = ~PositiveInt(amount)]]
  /\ IF ~TransferSchemaOk(receiverId, amount) \/ AmountOf(amount) <= 0
     THEN /\ pc' = [pc EXCEPT ![r] = "done"]
          /\ req' = [req EXCEPT ![r] = [NoReq EXCEPT !.op = "transferPoint", !.user = u]]
          /\ result' = [result EXCEPT ![r] = Response("invalid", 400)]
     ELSE /\ pc' = [pc EXCEPT ![r] = "findReceiver"]
          /\ req' = [req EXCEPT ![r] =
               [NoReq EXCEPT !.op = "transferPoint", !.user = u, !.receiverId = receiverId,
                             !.amount = AmountOf(amount), !.senderPoint = userPoint[u]]]
          /\ UNCHANGED result
  /\ UNCHANGED <<store, tx, transferLog, auth>>

(* prisma.user.findUnique for the receiver, then the three guards *)
TransferFindReceiver(r) ==
  /\ pc[r] = "findReceiver"
  /\ LET me == [NoReq EXCEPT !.op = "transferPoint", !.user = req[r].user]
         reject(kind) ==
           /\ pc' = [pc EXCEPT ![r] = "done"]
           /\ req' = [req EXCEPT ![r] = me]
           /\ result' = [result EXCEPT ![r] = Response(kind, 400)]
     IN IF req[r].receiverId \notin Users THEN reject("userNotFound")
        ELSE IF SelfTransfer(req[r].user, req[r].receiverId) THEN reject("selfTransfer")
        ELSE IF InsufficientPoints(req[r].senderPoint, req[r].amount)
        THEN reject("insufficientPoints")
        ELSE /\ pc' = [pc EXCEPT ![r] = "debit"]
             /\ UNCHANGED <<req, result>>
  /\ UNCHANGED <<store, tx, hist, transferLog, auth>>

(* Mutant: the debit writes sender.point - amount from the earlier read
   instead of decrementing the row *)
TransferDebitStale(r) ==
  /\ pc[r] = "debit"
  /\ ~LockedByOther(<<"user", req[r].user>>, r)
  /\ tx' = [tx EXCEPT ![r] =
       [NoTx EXCEPT !.open = TRUE,
                    !.point[req[r].user] =
                       (req[r].senderPoint - req[r].amount) - userPoint[req[r].user],
                    !.rows = {<<"user", req[r].user>>}]]
  /\ pc' = [pc EXCEPT ![r] = "credit"]
  /\ UNCHANGED <<store, req, result, hist, transferLog, auth>>

(* first statement of the batch: point: {decrement: amount} on the sender *)
TransferDebit(r) ==
  /\ pc[r] = "debit"
  /\ ~LockedByOther(<<"user", req[r].user>>, r)
  /\ tx' = [tx EXCEPT ![r] =
       [NoTx EXCEPT !.open = TRUE,
                    !.point[req[r].user] = @ - req[r].amount,
                    !.rows = {<<"user", req[r].user>>}]]
  /\ pc' = [pc EXCEPT ![r] = "credit"]
  /\ UNCHANGED <<store, req, result, hist, transferLog, auth>>

(* Mutant: the second statement of the batch does not reach the receiver *)
TransferCreditLost(r) ==
  /\ pc[r] = "credit"
  /\ ~LockedByOther(<<"user", req[r].receiverId>>, r)
  /\ tx' = [tx EXCEPT ![r] =
       [@ EXCEPT !.rows = @ \cup {<<"user", req[r].receiverId>>}]]
  /\ pc' = [pc EXCEPT ![r] = "transferCommit"]
  /\ UNCHANGED <<store, req, result, hist, transferLog, auth>>

(* second statement of the batch: point: {increment: amount} on the receiver *)
TransferCredit(r) ==
  /\ pc[r] = "credit"
  /\ ~LockedByOther(<<"user", req[r].receiverId>>, r)
  /\ tx' = [tx EXCEPT ![r] =
       [@ EXCEPT !.point[req[r].receiverId] = @ + req[r].amount,
                 !.rows = @ \cup {<<"user", req[r].receiverId>>}]]
  /\ pc' = [pc EXCEPT ![r] = "transferCommit"]
  /\ UNCHANGED <<store, req, result, hist, transferLog, auth>>

(* COMMIT of the batch; res.status(200).json({sender, receiver}) *)
TransferCommit(r) ==
  /\ pc[r] = "transferCommit"
  /\ userPoint' = CommitPoint(userPoint, tx[r])
  /\ transferLog' = transferLog \cup
       {[req |-> r, from |-> req[r].user, to |-> req[r].receiverId, amount |-> req[r].amount]}
  /\ result' = [result EXCEPT ![r] =
       [Response("transferred", 200) EXCEPT !.body =
          <<[sender |-> userPoint[req[r].user] + tx[r].point[req[r].user],
             receiver |-> userPoint[req[r].receiverId] + tx[r].point[req[r].receiverId]]>>]]
  /\ tx' = [tx EXCEPT ![r] = NoTx]
  /\ req' = [req EXCEPT ![r] = [NoReq EXCEPT !.op = "transferPoint", !.user = req[r].user]]
  /\ pc' = [pc EXCEPT ![r] = "done"]
  /\ UNCHANGED <<product, order, orderItem, hist, auth>>

----------------------------------------------------------------------------
(* A statement of a transaction is rejected by the store (deadlock victim,
   timeout of the interactive transaction, lost connection): ROLLBACK, the
   error reaches serverError and the response is 500 *)

TxPcs == {"orderCreate", "items", "orderUpdate", "userUpdate", "commit",
          "debit", "credit", "transferCommit"}

(* Mutant: the statements ran outside the transaction, so what was written
   before the failure stays *)
TxFailPartial(r) ==
  /\ pc[r] \in TxPcs
  /\ product' = CommitProduct(product, tx[r])
  /\ userPoint' = CommitPoint(userPoint, tx[r])
  /\ order' = order \cup Range(tx[r].order)
  /\ orderItem' = orderItem \cup Range(tx[r].items)
  /\ tx' = [tx EXCEPT ![r] = NoTx]
  /\ req' = [req EXCEPT ![r] = [NoReq EXCEPT !.op = req[r].op, !.user = req[r].user]]
  /\ result' = [result EXCEPT ![r] = Response("error", 500)]
  /\ pc' = [pc EXCEPT ![r] = "done"]
  /\ hist' = [hist EXCEPT ![r].rolledBack = tx[r].rows # {}]
  /\ UNCHANGED <<transferLog, auth>>

(* Mutant: a failed createOrder transaction is started again *)
TxFailRetries(r) ==
  /\ pc[r] \in TxPcs
  /\ tx' = [tx EXCEPT ![r] = NoTx]
  /\ IF req[r].op = "createOrder"
     THEN /\ pc' = [pc EXCEPT ![r] = "orderCreate"]
          /\ UNCHANGED <<req, result>>
     ELSE /\ pc' = [pc EXCEPT ![r] = "done"]
          /\ req' = [req EXCEPT ![r] = [NoReq EXCEPT !.op = req[r].op, !.user = req[r].user]]
          /\ result' = [result EXCEPT ![r] = Response("error", 500)]
  /\ hist' = [hist EXCEPT ![r].rolledBack = tx[r].rows # {}]
  /\ UNCHANGED <<store, transferLog, auth>>

(* a statement of the transaction throws: ROLLBACK, serverError answers 500 *)
TxFail(r) ==
  /\ pc[r] \in TxPcs
  /\ tx' = [tx EXCEPT ![r] = NoTx]
  /\ req' = [req EXCEPT ![r] = [NoReq EXCEPT !.op = req[r].op, !.user = req[r].user]]
  /\ result' = [result EXCEPT ![r] = Response("error", 500)]
  /\ pc' = [pc EXCEPT ![r] = "done"]
  /\ hist' = [hist EXCEPT ![r].rolledBack = tx[r].rows # {}]
  /\ UNCHANGED <<store, transferLog, auth>>

----------------------------------------------------------------------------
(* Accounts: the User table's email, password, role and deletedAt, the
   tokens requests carry, and the clock *)

(* bcrypt.hash(plain, 12): the hash is not the plain text, and
   bcrypt.compare(plain, hash) holds exactly for the text that was hashed *)
HashPassword(plain) == [bcrypt |-> plain.text]

VerifyPassword(plain, hash) == hash = HashPassword(plain)

(* A password as typed: its text and its length *)
Typed(text, length) == [text |-> text, length |-> length]

(* The seeded users: alice is active, bob has deactivated his account *)
InitAccount ==
  (1 :> [email |-> "alice@gmail.com", password |-> HashPassword(Typed("alice12345", 10)),
         role |-> "USER", deleted |-> FALSE]) @@
  (2 :> [email |-> "bob@gmail.com", password |-> HashPassword(Typed("bob12345", 8)),
         role |-> "USER", deleted |-> TRUE])

(* What a request presents as its token: nothing, a string verifyJWT
   refuses, or a signed token with the id and role it was issued for *)
NoToken == [present |-> FALSE, verifies |-> FALSE, id |-> 0, role |-> "none"]

BadToken == [present |-> TRUE, verifies |-> FALSE, id |-> 0, role |-> "none"]

SignJWT(id, role) == [present |-> TRUE, verifies |-> TRUE, id |-> id, role |-> role]

InitAuth ==
  /\ account = InitAccount
  /\ passwordResetToken = {}
  /\ now = 0
  /\ session = [r \in Requests |-> NoToken]

----------------------------------------------------------------------------
Init ==
  /\ product = InitProduct
  /\ userPoint = [u \in Users |-> InitPoint]
  /\ order = {}
  /\ orderItem = {}
  /\ pc = [r \in Requests |-> "idle"]
  /\ req = [r \in Requests |-> NoReq]
  /\ tx = [r \in Requests |-> NoTx]
  /\ result = [r \in Requests |-> NoResult]
  /\ hist = [r \in Requests |-> NoHist]
  /\ transferLog = {}
  /\ InitAuth

Next ==
  \E r \in Requests :
    \/ \E u \in Users, body \in Bodies : CreateOrder(r, u, body)
    \/ TxOrderCreate(r)
    \/ TxProductUpdate(r)
    \/ TxOrderItemCreate(r)
    \/ TxOrderUpdate(r)
    \/ TxUserUpdate(r)
    \/ TxCommit(r)
    \/ \E u \in Users, receiverId \in UserIds, amount \in TransferAmounts :
         TransferPoint(r, u, receiverId, amount)
    \/ TransferFindReceiver(r)
    \/ TransferDebit(r)
    \/ TransferCredit(r)
    \/ TransferCommit(r)
    \/ TxFail(r)

Spec == Init /\ [][Next]_vars

----------------------------------------------------------------------------
(* updateProduct (admin) *)

(* Bodies an admin sends: price, and the optional stock as a sequence of at
   most one number *)
UpdatePrices == {0, 700}

UpdateStocks == {<<>>, <<1>>}

(* idSchema and productSchema: positive id, positive price, stock positive
   when present *)
ProductSchemaOk(id, price, stock) ==
  id > 0 /\ price > 0 /\ (stock # <<>> => stock[1] > 0)

(* parse params and body, prisma.product.findUnique *)
UpdateProduct(r, id, price, stock) ==
  /\ pc[r] = "idle"
  /\ LET me == [NoReq EXCEPT !.op = "updateProduct"]
     IN IF ~ProductSchemaOk(id, price, stock)
        THEN /\ pc' = [pc EXCEPT ![r] = "done"]
             /\ req' = [req EXCEPT ![r] = me]
             /\ result' = [result EXCEPT ![r] = Response("invalid", 400)]
        ELSE IF id \notin ProductRows
        THEN /\ pc' = [pc EXCEPT ![r] = "done"]
             /\ req' = [req EXCEPT ![r] = me]
             /\ result' = [result EXCEPT ![r] = Response("productNotFound", 404)]
        ELSE /\ pc' = [pc EXCEPT ![r] = "productUpdate"]
             /\ req' = [req EXCEPT ![r] =
                  [me EXCEPT !.productId = id, !.price = price,
                             !.stock = IF stock = <<>> THEN 0 ELSE stock[1]]]
             /\ UNCHANGED result
  /\ UNCHANGED <<store, tx, hist, transferLog, auth>>

(* prisma.product.update({data: {price, stock: body.data.stock ?? 0, ...}}) *)
ProductUpdate(r) ==
  /\ pc[r] = "productUpdate"
  /\ ~LockedByOther(<<"product", req[r].productId>>, r)
  /\ product' = [product EXCEPT ![req[r].productId].price = req[r].price,
                                ![req[r].productId].stock = req[r].stock]
  /\ pc' = [pc EXCEPT ![r] = "done"]
  /\ req' = [req EXCEPT ![r] = [NoReq EXCEPT !.op = "updateProduct"]]
  /\ result' = [result EXCEPT ![r] =
       [Response("updated", 200) EXCEPT !.product = req[r].productId]]
  /\ UNCHANGED <<userPoint, order, orderItem, tx, hist, transferLog, auth>>


(* The end-to-end scenario of the specification: product A (1) costs 600 with
   stock 5, product B (2) costs 1500 with stock 2, every balance is 0 *)
ScenarioProduct ==
  (1 :> [price |-> 600, stock |-> 5, deleted |-> FALSE]) @@
  (2 :> [price |-> 1500, stock |-> 2, deleted |-> FALSE]) @@
  (3 :> [price |-> 1000, stock |-> 2, deleted |-> TRUE])

InitScenario ==
  /\ product = ScenarioProduct
  /\ userPoint = [u \in Users |-> 0]
  /\ order = {}
  /\ orderItem = {}
  /\ pc = [r \in Requests |-> "idle"]
  /\ req = [r \in Requests |-> NoReq]
  /\ tx = [r \in Requests |-> NoTx]
  /\ result = [r \in Requests |-> NoResult]
  /\ hist = [r \in Requests |-> NoHist]
  /\ transferLog = {}
  /\ InitAuth

(* Request bodies that name no deleted or absent product *)
LiveBodies ==
  {body \in Bodies : \A i \in 1..Len(body) :
     body[i].productId \notin {RawNumber(3), RawNumber(4)}}

NextLive ==
  \E r \in Requests :
    \/ \E u \in Users, body \in LiveBodies : CreateOrder(r, u, body)
    \/ TxOrderCreate(r)
    \/ TxProductUpdate(r)
    \/ TxOrderItemCreate(r)
    \/ TxOrderUpdate(r)
    \/ TxUserUpdate(r)
    \/ TxCommit(r)
    \/ \E u \in Users, receiverId \in UserIds, amount \in TransferAmounts :
         TransferPoint(r, u, receiverId, amount)
    \/ TransferFindReceiver(r)
    \/ TransferDebit(r)
    \/ TransferCredit(r)
    \/ TransferCommit(r)
    \/ TxFail(r)

SpecScenario == InitScenario /\ [][NextLive]_vars

SpecLive == Init /\ [][NextLive]_vars

NextAdmin ==
  \/ NextLive
  \/ \E r \in Requests :
       \/ \E id \in ProductIds, price \in UpdatePrices, stock \in UpdateStocks :
            UpdateProduct(r, id, price, stock)
       \/ ProductUpdate(r)

SpecAdmin == Init /\ [][NextAdmin]_vars

----------------------------------------------------------------------------
(* deleteProduct (admin): soft delete *)

(* idSchema.safeParse(req.params), prisma.product.findUnique({where: {id}}) *)
DeleteProduct(r, id) ==
  /\ pc[r] = "idle"
  /\ LET me == [NoReq EXCEPT !.op = "deleteProduct"]
     IN IF ~(id > 0)
        THEN /\ pc' = [pc EXCEPT ![r] = "done"]
             /\ req' = [req EXCEPT ![r] = me]
             /\ result' = [result EXCEPT ![r] = Response("invalid", 400)]
        ELSE IF id \notin ProductRows
        THEN /\ pc' = [pc EXCEPT ![r] = "done"]
             /\ req' = [req EXCEPT ![r] = me]
             /\ result' = [result EXCEPT ![r] = Response("productNotFound", 404)]
        ELSE /\ pc' = [pc EXCEPT ![r] = "productDelete"]
             /\ req' = [req EXCEPT ![r] = [me EXCEPT !.productId = id]]
             /\ UNCHANGED result
  /\ UNCHANGED <<store, tx, hist, transferLog, auth>>

(* prisma.product.update({where: {id}, data: {deletedAt: new Date()}}); 204 *)
ProductDelete(r) ==
  /\ pc[r] = "productDelete"
  /\ ~LockedByOther(<<"product", req[r].productId>>, r)
  /\ product' = [product EXCEPT ![req[r].productId].deleted = TRUE]
  /\ pc' = [pc EXCEPT ![r] = "done"]
  /\ req' = [req EXCEPT ![r] = [NoReq EXCEPT !.op = "deleteProduct"]]
  /\ result' = [result EXCEPT ![r] =
       [Response("deleted", 204) EXCEPT !.product = req[r].productId]]
  /\ UNCHANGED <<userPoint, order, orderItem, tx, hist, transferLog, auth>>

NextDelete ==
  \/ NextLive
  \/ \E r \in Requests :
       \/ \E id \in ProductIds \cup {0} : DeleteProduct(r, id)
       \/ ProductDelete(r)

SpecDelete == Init /\ [][NextDelete]_vars

----------------------------------------------------------------------------
(* getOrders: the listing of orders *)

MaxOrders == 2

(* A parameter of the query string: absent, a string Number() reads as n, a
   string that is no number, or a repeated parameter (an array) *)
NoParam == [kind |-> "absent", n |-> 0]

NumParam(n) == [kind |-> "number", n |-> n]

TextParam == [kind |-> "text", n |-> 0]

ListParam == [kind |-> "list", n |-> 0]

(* z.string().optional() accepts the parameter *)
StringOptional(val) == val.kind # "list"

(* stringToNumUndefined: the number, or undefined (the empty sequence) *)
StringToNumUndefined(val) == IF val.kind = "number" THEN <<val.n>> ELSE <<>>

(* paginationSchema: !isNaN(num) && num > 0 ? num : fallback *)
PositiveOr(val, fallback) == IF val.kind = "number" /\ val.n > 0 THEN val.n ELSE fallback

(* buildOrderOrderBy: sortBy is absent or the parts of "col.dir" *)
BuildOrderOrderBy(sortBy) ==
  LET fallback == [col |-> "createdAt", dir |-> "desc"]
  IN IF sortBy = <<>> THEN fallback
     ELSE LET col == sortBy[1]
              dir == IF Len(sortBy) > 1 THEN sortBy[2] ELSE "undefined"
              direction == IF dir \in {"asc", "desc"} THEN dir ELSE "desc"
          IN IF col \in {"totalPrice", "createdAt"}
             THEN [col |-> col, dir |-> direction]
             ELSE fallback

(* Mutant: the where clause without the userId *)
BuildOrderWhereNoUser(params) ==
  [userId |-> <<>>, gte |-> params.minPrice, lte |-> params.maxPrice,
   fallback |-> params.minPrice = <<>> /\ params.maxPrice = <<>>]

(* buildOrderWhere: the fallback when no key was set *)
BuildOrderWhere(params) ==
  [userId |-> params.userId, gte |-> params.minPrice, lte |-> params.maxPrice,
   fallback |-> params.userId = <<>> /\ params.minPrice = <<>> /\ params.maxPrice = <<>>]

(* user.role === "ADMIN" ? buildOrderWhere({minPrice, maxPrice})
                         : buildOrderWhere({userId: user.id, minPrice, maxPrice}) *)
OrderWhereOf(user, minPrice, maxPrice) ==
  IF user.role = "ADMIN"
  THEN BuildOrderWhere([userId |-> <<>>, minPrice |-> minPrice, maxPrice |-> maxPrice])
  ELSE BuildOrderWhere([userId |-> <<user.id>>, minPrice |-> minPrice, maxPrice |-> maxPrice])

(* the rows of the Order table a where clause selects *)
OrderMatches(o, where, items) ==
  IF where.fallback
  THEN \E it \in items : it.orderId = o.id /\ it.totalPrice >= 0
  ELSE /\ where.userId # <<>> => o.userId = where.userId[1]
       /\ where.gte # <<>> => o.totalPrice >= where.gte[1]
       /\ where.lte # <<>> => o.totalPrice <= where.lte[1]

(* the sort key of a row: orders are numbered in creation order, so the id
   stands for createdAt *)
OrderKey(o, col) == IF col = "totalPrice" THEN o.totalPrice ELSE o.id

(* every sequence of the rows that ORDER BY allows: rows with equal keys come
   in any order *)
OrderListings(rows, orderBy) ==
  {seq \in [1..Cardinality(rows) -> rows] :
     \A i, j \in 1..Cardinality(rows) :
       i < j => /\ seq[i] # seq[j]
                /\ IF orderBy.dir = "asc"
                   THEN OrderKey(seq[i], orderBy.col) <= OrderKey(seq[j], orderBy.col)
                   ELSE OrderKey(seq[i], orderBy.col) >= OrderKey(seq[j], orderBy.col)}

(* take: limit, skip: (page - 1) * limit *)
TakeSkip(seq, limit, page) ==
  LET skip == (page - 1) * limit
      last == IF skip + limit < Len(seq) THEN skip + limit ELSE Len(seq)
  IN IF skip >= Len(seq) THEN <<>> ELSE SubSeq(seq, skip + 1, last)

(* include: {items: {omit: {orderId: true}}} *)
WithItems(o, items) ==
  [id |-> o.id, userId |-> o.userId, totalPrice |-> o.totalPrice,
   items |-> {[productId |-> it.productId, quantity |-> it.quantity,
               unitPrice |-> it.unitPrice, totalPrice |-> it.totalPrice] :
                it \in {x \in items : x.orderId = o.id}}]

(* the bodies getOrders can answer with on a store: findMany and count under
   the same where clause, wrapped by paginationResponse *)
GetOrdersAnswers(user, query, orders, items) ==
  LET where == OrderWhereOf(user, StringToNumUndefined(query.minPrice),
                            StringToNumUndefined(query.maxPrice))
      orderBy == BuildOrderOrderBy(query.sortBy)
      limit == PositiveOr(query.limit, 30)
      page == PositiveOr(query.page, 1)
      rows == {o \in orders : OrderMatches(o, where, items)}
  IN {[page |-> page, limit |-> limit, total |-> Cardinality(rows),
       data |-> [i \in DOMAIN TakeSkip(seq, limit, page) |->
                   WithItems(TakeSkip(seq, limit, page)[i], items)]] :
        seq \in OrderListings(rows, orderBy)}

(* getOrders: orderFilterSchema.parse and paginationSchema.parse throw on a
   repeated parameter (500); otherwise the listing is answered *)
GetOrders(r, user, query) ==
  /\ pc[r] = "idle"
  /\ IF \E f \in {"minPrice", "maxPrice", "limit", "page"} : ~StringOptional(query[f])
     THEN result' = [result EXCEPT ![r] = Response("error", 500)]
     ELSE \E answer \in GetOrdersAnswers(user, query, order, orderItem) :
            result' = [result EXCEPT ![r] =
              [Response("orders", 200) EXCEPT !.body = <<answer>>]]
  /\ pc' = [pc EXCEPT ![r] = "done"]
  /\ req' = [req EXCEPT ![r] = [NoReq EXCEPT !.op = "getOrders", !.user = user.id]]
  /\ hist' = [hist EXCEPT ![r] = [NoHist EXCEPT !.caller = user, !.query = <<query>>]]
  /\ UNCHANGED <<store, tx, transferLog, auth>>

(* Callers as requireAuth decodes them from the token *)
Callers == [id : Users, role : {"USER", "ADMIN"}]

(* Query strings of the listing *)
Queries ==
  [minPrice : {NoParam, NumParam(1000), TextParam},
   maxPrice : {NoParam, NumParam(1000), ListParam},
   sortBy : {<<>>, <<"totalPrice", "asc">>, <<"totalPrice">>, <<"createdAt", "asc">>,
             <<"name", "asc">>},
   limit : {NoParam, NumParam(1), NumParam(0)},
   page : {NoParam, NumParam(2)}]

(* Order tables of up to MaxOrders orders, numbered in creation order, each
   with its one item row *)
OrderTables ==
  UNION {{ {[id |-> i, userId |-> f[i].userId, totalPrice |-> f[i].totalPrice] :
              i \in 1..n} :
            f \in [1..n -> [userId : Users, totalPrice : {600, 1500}]] } :
         n \in 0..MaxOrders}

ItemRowsOf(orders) ==
  {[orderId |-> o.id, line |-> 1, productId |-> IF o.totalPrice = 600 THEN 1 ELSE 2,
    quantity |-> 1, unitPrice |-> o.totalPrice, totalPrice |-> o.totalPrice,
    stockBefore |-> 2] : o \in orders}

InitOrders ==
  /\ product = InitProduct
  /\ userPoint = [u \in Users |-> InitPoint]
  /\ order \in OrderTables
  /\ orderItem = ItemRowsOf(order)
  /\ pc = [r \in Requests |-> "idle"]
  /\ req = [r \in Requests |-> NoReq]
  /\ tx = [r \in Requests |-> NoTx]
  /\ result = [r \in Requests |-> NoResult]
  /\ hist = [r \in Requests |-> NoHist]
  /\ transferLog = {}
  /\ InitAuth

(* The listing reads a store that no step of this specification changes, so
   one listing request at a time covers every answer *)
Listers == {1}

NextOrders ==
  \E r \in Listers : \E user \in Callers, query \in Queries : GetOrders(r, user, query)

SpecOrders == InitOrders /\ [][NextOrders]_vars

----------------------------------------------------------------------------
(* register *)

(* An email as sent: its text and whether it has the form of an address *)
Email(text) == [text |-> text, wellFormed |-> TRUE]

BadEmail == [text |-> "carol", wellFormed |-> FALSE]

(* Bodies of register: a taken address, two free ones and one that is none, a
   short and a long password, the role absent, valid or unknown *)
RegisterBodies ==
  [email : {Email("alice@gmail.com"), Email("carol@gmail.com"), Email("dave@gmail.com"),
            BadEmail},
   password : {Typed("carol12", 7), Typed("carol12345", 10)},
   role : {<<>>, <<"ADMIN">>, <<"ROOT">>}]

(* registerSchema: z.email, z.string().min(8), z.enum(Role).optional() *)
RegisterSchemaOk(body) ==
  /\ body.email.wellFormed
  /\ body.password.length >= 8
  /\ body.role = <<>> \/ body.role[1] \in {"USER", "ADMIN"}

(* registerSchema.safeParse; inside try: await hashPassword(password) *)
Register(r, body) ==
  /\ pc[r] = "idle"
  /\ IF ~RegisterSchemaOk(body)
     THEN /\ pc' = [pc EXCEPT ![r] = "done"]
          /\ req' = [req EXCEPT ![r] = [NoReq EXCEPT !.op = "register"]]
          /\ result' = [result EXCEPT ![r] = Response("invalid", 400)]
     ELSE /\ pc' = [pc EXCEPT ![r] = "userCreate"]
          /\ req' = [req EXCEPT ![r] =
               [NoReq EXCEPT !.op = "register", !.email = body.email.text,
                             !.password = HashPassword(body.password),
                             !.role = IF body.role = <<>> THEN "USER" ELSE body.role[1]]]
          /\ UNCHANGED result
  /\ UNCHANGED <<store, tx, hist, transferLog, auth>>

(* prisma.user.create: the unique email makes it fail with P2002, which the
   catch block turns into 409; otherwise the row is written and 201 answered *)
UserCreate(r) ==
  /\ pc[r] = "userCreate"
  /\ IF \E id \in DOMAIN account : account[id].email = req[r].email
     THEN /\ result' = [result EXCEPT ![r] = Response("emailTaken", 409)]
          /\ UNCHANGED account
     ELSE LET id == Cardinality(DOMAIN account) + 1
          IN /\ account' = account @@
                  (id :> [email |-> req[r].email, password |-> req[r].password,
                          role |-> req[r].role, deleted |-> FALSE])
             /\ result' = [result EXCEPT ![r] =
                  [Response("registered", 201) EXCEPT !.body =
                     <<[id |-> id, email |-> req[r].email]>>]]
  /\ pc' = [pc EXCEPT ![r] = "done"]
  /\ req' = [req EXCEPT ![r] = [NoReq EXCEPT !.op = "register"]]
  /\ UNCHANGED <<store, tx, hist, transferLog, passwordResetToken, now, session>>

(* hashPassword or prisma.user.create rejects with an error whose code is not
   P2002 (the store is unreachable, ...): the catch block logs it with
   console.error and the handler returns without a response *)
UserCreateFails(r) ==
  /\ pc[r] = "userCreate"
  /\ pc' = [pc EXCEPT ![r] = "returned"]
  /\ req' = [req EXCEPT ![r] = [NoReq EXCEPT !.op = "register"]]
  /\ UNCHANGED <<store, tx, result, hist, transferLog, auth>>

NextRegister ==
  \E r \in Requests :
    \/ \E body \in RegisterBodies : Register(r, body)
    \/ UserCreate(r)
    \/ UserCreateFails(r)

(* the store answers every statement it was sent, with a result or an error *)
SpecRegister ==
  /\ Init
  /\ [][NextRegister]_vars
  /\ \A r \in Requests : WF_vars(UserCreate(r) \/ UserCreateFails(r))

----------------------------------------------------------------------------
(* login, deactivateSelf, deactivateUser, activateUser *)

(* Bodies of login: the two seeded users' addresses, an unknown address and
   a string that is no address; the users' passwords and an empty one *)
LoginBodies ==
  [email : {Email("alice@gmail.com"), Email("bob@gmail.com"), Email("carol@gmail.com"),
            BadEmail},
   password : {Typed("alice12345", 10), Typed("bob12345", 8), Typed("", 0)}]

(* Ids of the :id parameter: no positive number, the seeded rows, no row *)
AccountIds == {0, 1, 2, 3}

(* loginSchema: z.email(), z.string().min(1) *)
LoginSchemaOk(body) == body.email.wellFormed /\ body.password.length >= 1

(* prisma.user.findUnique({where: {email}}) *)
FindByEmail(acc, email) == {id \in DOMAIN acc : acc[id].email = email}

(* Mutant: the lookup of login without deletedAt: null *)
FindAnyByEmail(acc, email) == {id \in DOMAIN acc : acc[id].email = email}

(* prisma.user.findUnique({where: {email, deletedAt: null}}) *)
FindActiveByEmail(acc, email) ==
  {id \in DOMAIN acc : acc[id].email = email /\ ~acc[id].deleted}

(* prisma.user.findUnique({where: {id, deletedAt: {not: null}}}) *)
FindDeactivatedById(acc, id) == {i \in DOMAIN acc : i = id /\ acc[i].deleted}

(* loginSchema.safeParse, the lookup of the user by email *)
Login(r, body) ==
  /\ pc[r] = "idle"
  /\ LET me == [NoReq EXCEPT !.op = "login", !.email = body.email.text]
         found == FindActiveByEmail(account, body.email.text)
     IN IF ~LoginSchemaOk(body)
        THEN /\ pc' = [pc EXCEPT ![r] = "done"]
             /\ req' = [req EXCEPT ![r] = me]
             /\ result' = [result EXCEPT ![r] = Response("invalid", 400)]
        ELSE IF found = {}
        THEN /\ pc' = [pc EXCEPT ![r] = "done"]
             /\ req' = [req EXCEPT ![r] = me]
             /\ result' = [result EXCEPT ![r] = Response("userNotFound", 404)]
        ELSE LET id == CHOOSE i \in found : TRUE
             IN /\ pc' = [pc EXCEPT ![r] = "verify"]
                /\ req' = [req EXCEPT ![r] =
                     [me EXCEPT !.user = id, !.password = body.password,
                                !.role = account[id].role,
                                !.record = <<account[id].password>>]]
                /\ UNCHANGED result
  /\ UNCHANGED <<store, tx, hist, transferLog, auth>>

(* verifyPassword(password, user.password); signJWT; 200 with the token *)
LoginVerify(r) ==
  /\ pc[r] = "verify"
  /\ result' = [result EXCEPT ![r] =
       IF VerifyPassword(req[r].password, req[r].record[1])
       THEN [Response("loggedIn", 200) EXCEPT !.body =
               <<[token |-> SignJWT(req[r].user, req[r].role)]>>]
       ELSE Response("wrongPassword", 401)]
  /\ pc' = [pc EXCEPT ![r] = "done"]
  /\ req' = [req EXCEPT ![r] = [NoReq EXCEPT !.op = "login", !.email = req[r].email]]
  /\ UNCHANGED <<store, tx, hist, transferLog, auth>>

(* deactivateSelf: prisma.user.update({where: {id: user.id},
   data: {deletedAt: new Date()}}) for the user of the token *)
DeactivateSelf(r, u) ==
  /\ pc[r] = "idle"
  /\ account' = [account EXCEPT ![u].deleted = TRUE]
  /\ pc' = [pc EXCEPT ![r] = "done"]
  /\ req' = [req EXCEPT ![r] = [NoReq EXCEPT !.op = "deactivateSelf", !.user = u]]
  /\ result' = [result EXCEPT ![r] = Response("deactivated", 200)]
  /\ UNCHANGED <<store, tx, hist, transferLog, passwordResetToken, now, session>>

(* deactivateUser: idSchema.safeParse, prisma.user.update, which throws
   when there is no such row (so the 404 after it is never reached) *)
DeactivateUser(r, id) ==
  /\ pc[r] = "idle"
  /\ IF ~(id > 0)
     THEN /\ result' = [result EXCEPT ![r] = Response("invalid", 400)]
          /\ UNCHANGED account
     ELSE IF id \notin DOMAIN account
     THEN /\ result' = [result EXCEPT ![r] = Response("error", 500)]
          /\ UNCHANGED account
     ELSE /\ result' = [result EXCEPT ![r] = Response("deactivated", 200)]
          /\ account' = [account EXCEPT ![id].deleted = TRUE]
  /\ pc' = [pc EXCEPT ![r] = "done"]
  /\ req' = [req EXCEPT ![r] = [NoReq EXCEPT !.op = "deactivateUser", !.user = id]]
  /\ UNCHANGED <<store, tx, hist, transferLog, passwordResetToken, now, session>>

(* activateUser: idSchema.safeParse, the lookup of the deactivated user *)
ActivateUser(r, id) ==
  /\ pc[r] = "idle"
  /\ LET me == [NoReq EXCEPT !.op = "activateUser", !.user = id]
     IN /\ IF ~(id > 0)
           THEN /\ pc' = [pc EXCEPT ![r] = "done"]
                /\ result' = [result EXCEPT ![r] = Response("invalid", 400)]
           ELSE IF FindDeactivatedById(account, id) = {}
           THEN /\ pc' = [pc EXCEPT ![r] = "done"]
                /\ result' = [result EXCEPT ![r] = Response("userNotFound", 404)]
           ELSE /\ pc' = [pc EXCEPT ![r] = "activate"]
                /\ UNCHANGED result
        /\ req' = [req EXCEPT ![r] = me]
  /\ UNCHANGED <<store, tx, hist, transferLog, auth>>

(* prisma.user.update({where: {id}, data: {deletedAt: null}}); 200 *)
Activate(r) ==
  /\ pc[r] = "activate"
  /\ account' = [account EXCEPT ![req[r].user].deleted = FALSE]
  /\ pc' = [pc EXCEPT ![r] = "done"]
  /\ result' = [result EXCEPT ![r] = Response("activated", 200)]
  /\ UNCHANGED <<store, req, tx, hist, transferLog, passwordResetToken, now, session>>

NextAccess ==
  \E r \in Requests :
    \/ \E body \in LoginBodies : Login(r, body)
    \/ LoginVerify(r)
    \/ \E u \in Users : DeactivateSelf(r, u)
    \/ \E id \in AccountIds : DeactivateUser(r, id)
    \/ \E id \in AccountIds : ActivateUser(r, id)
    \/ Activate(r)

SpecAccess == Init /\ [][NextAccess]_vars

----------------------------------------------------------------------------
(* requireAuth, authorize and the routes they guard *)

(* getToken: the cookie's token, else the Bearer header's, else null *)
GetToken(r) == session[r]

(* requireAuth: 401 without a token or when verifyJWT throws, else the
   decoded user goes on the request; 0 stands for next() *)
RequireAuth(token) ==
  IF ~token.present THEN [status |-> 401, user |-> <<>>]
  ELSE IF ~token.verifies THEN [status |-> 401, user |-> <<>>]
  ELSE [status |-> 0, user |-> <<[id |-> token.id, role |-> token.role]>>]

(* Mutant: authorize lets every decoded user through *)
AuthorizeAnyRole(roles, user) ==
  IF user = <<>> THEN 401
  ELSE 0

(* authorize(roles): 401 without a user, 403 when the role is not listed *)
Authorize(roles, user) ==
  IF user = <<>> THEN 401
  ELSE IF user[1].role \notin roles THEN 403
  ELSE 0

(* requireAuth, authorize(["ADMIN"]) in a route's middleware chain *)
AdminGate(token) ==
  LET auth1 == RequireAuth(token)
  IN IF auth1.status # 0 THEN auth1.status
     ELSE Authorize({"ADMIN"}, auth1.user)

(* serverError answering the AppError a middleware threw *)
Deny(r, status) ==
  /\ pc[r] = "idle"
  /\ pc' = [pc EXCEPT ![r] = "done"]
  /\ result' = [result EXCEPT ![r] =
       Response(IF status = 401 THEN "unauthorized" ELSE "forbidden", status)]
  /\ UNCHANGED <<store, req, tx, hist, transferLog, auth>>

(* router.put("/products/:id", requireAuth, authorize(["ADMIN"]), ...) *)
RouteUpdateProduct(r, id, price, stock) ==
  IF AdminGate(GetToken(r)) # 0
  THEN Deny(r, AdminGate(GetToken(r)))
  ELSE UpdateProduct(r, id, price, stock)

(* router.delete("/products/:id", requireAuth, authorize(["ADMIN"]), ...) *)
RouteDeleteProduct(r, id) ==
  IF AdminGate(GetToken(r)) # 0
  THEN Deny(r, AdminGate(GetToken(r)))
  ELSE DeleteProduct(r, id)

(* router.put("/users/:id/deactivate", requireAuth, authorize(["ADMIN"]), ...) *)
RouteDeactivateUser(r, id) ==
  IF AdminGate(GetToken(r)) # 0
  THEN Deny(r, AdminGate(GetToken(r)))
  ELSE DeactivateUser(r, id)

(* router.put("/users/:id/activate", requireAuth, authorize(["ADMIN"]), ...) *)
RouteActivateUser(r, id) ==
  IF AdminGate(GetToken(r)) # 0
  THEN Deny(r, AdminGate(GetToken(r)))
  ELSE ActivateUser(r, id)

(* The accounts once carol has registered as an administrator *)
GateAccount ==
  InitAccount @@
  (3 :> [email |-> "carol@gmail.com", password |-> HashPassword(Typed("carol12345", 10)),
         role |-> "ADMIN", deleted |-> FALSE])

(* What the requests may carry: no token, a token verifyJWT refuses, the
   token login signed for alice, the token it signed for carol *)
Tokens == {NoToken, BadToken, SignJWT(1, "USER"), SignJWT(3, "ADMIN")}

InitGate ==
  /\ product = InitProduct
  /\ userPoint = [u \in Users |-> InitPoint]
  /\ order = {}
  /\ orderItem = {}
  /\ pc = [r \in Requests |-> "idle"]
  /\ req = [r \in Requests |-> NoReq]
  /\ tx = [r \in Requests |-> NoTx]
  /\ result = [r \in Requests |-> NoResult]
  /\ hist = [r \in Requests |-> NoHist]
  /\ transferLog = {}
  /\ account = GateAccount
  /\ passwordResetToken = {}
  /\ now = 0
  /\ session \in [Requests -> Tokens]

NextGate ==
  \E r \in Requests :
    \/ \E id \in ProductIds, price \in UpdatePrices, stock \in UpdateStocks :
         RouteUpdateProduct(r, id, price, stock)
    \/ ProductUpdate(r)
    \/ \E id \in ProductIds \cup {0} : RouteDeleteProduct(r, id)
    \/ ProductDelete(r)
    \/ \E id \in AccountIds : RouteDeactivateUser(r, id)
    \/ \E id \in AccountIds : RouteActivateUser(r, id)
    \/ Activate(r)

SpecGate == InitGate /\ [][NextGate]_vars

----------------------------------------------------------------------------
(* resetPasswordRequest, resetPassword *)

MaxTime == 2

(* crypto.createHash("sha256").update(token).digest("hex") *)
Sha256(secret) == [sha256 |-> secret]

(* crypto.randomBytes(32): the secret a request draws is its own *)
RandomBytes(r) == r

(* Secrets a caller sends: the one issued before, those the requests draw,
   and one that was never issued *)
Secrets == {0} \cup {RandomBytes(r) : r \in Requests} \cup {9}

NewPasswords == {Typed("newpass11", 9), Typed("newpass22", 9)}

(* A reset token issued to alice before, valid until time 1 (the clock
   counts the 15 minutes a token lives as one unit) *)
InitReset ==
  /\ product = InitProduct
  /\ userPoint = [u \in Users |-> InitPoint]
  /\ order = {}
  /\ orderItem = {}
  /\ pc = [r \in Requests |-> "idle"]
  /\ req = [r \in Requests |-> NoReq]
  /\ tx = [r \in Requests |-> NoTx]
  /\ result = [r \in Requests |-> NoResult]
  /\ hist = [r \in Requests |-> NoHist]
  /\ transferLog = {}
  /\ account = InitAccount
  /\ passwordResetToken = {[id |-> 0, userId |-> 1, token |-> Sha256(0), expiresAt |-> 1]}
  /\ now = 0
  /\ session = [r \in Requests |-> NoToken]

(* time passes *)
Tick ==
  /\ now < MaxTime
  /\ now' = now + 1
  /\ UNCHANGED <<store, pc, req, tx, result, hist, transferLog, account,
                 passwordResetToken, session>>

(* resetPasswordRequest: prisma.user.findUnique({where: {email}}) *)
ResetPasswordRequest(r, email) ==
  /\ pc[r] = "idle"
  /\ LET me == [NoReq EXCEPT !.op = "resetPasswordRequest", !.email = email.text]
         found == FindByEmail(account, email.text)
     IN IF found = {}
        THEN /\ pc' = [pc EXCEPT ![r] = "done"]
             /\ req' = [req EXCEPT ![r] = me]
             /\ result' = [result EXCEPT ![r] = Response("userNotFound", 404)]
        ELSE /\ pc' = [pc EXCEPT ![r] = "tokenCreate"]
             /\ req' = [req EXCEPT ![r] = [me EXCEPT !.user = CHOOSE i \in found : TRUE]]
             /\ UNCHANGED result
  /\ UNCHANGED <<store, tx, hist, transferLog, auth>>

(* prisma.passwordResetToken.create with the hashed token and
   expiresAt: now + 15 minutes; 200 with the token *)
TokenCreate(r) ==
  /\ pc[r] = "tokenCreate"
  /\ passwordResetToken' = passwordResetToken \cup
       {[id |-> r, userId |-> req[r].user, token |-> Sha256(RandomBytes(r)),
         expiresAt |-> now + 1]}
  /\ pc' = [pc EXCEPT ![r] = "done"]
  /\ result' = [result EXCEPT ![r] =
       [Response("resetToken", 200) EXCEPT !.body = <<[resetToken |-> RandomBytes(r)]>>]]
  /\ UNCHANGED <<store, req, tx, hist, transferLog, account, now, session>>

(* !(!record || record.expiresAt < new Date()) *)
TokenUsable(records, time) == records # {} /\ \A rec \in records : ~(rec.expiresAt < time)

(* resetPassword: hash the token, prisma.passwordResetToken.findUnique, the
   check of the record and its expiry *)
ResetPassword(r, secret, newPassword) ==
  /\ pc[r] = "idle"
  /\ LET records == {rec \in passwordResetToken : rec.token = Sha256(secret)}
         me == [NoReq EXCEPT !.op = "resetPassword"]
     IN /\ IF ~TokenUsable(records, now)
           THEN /\ pc' = [pc EXCEPT ![r] = "done"]
                /\ req' = [req EXCEPT ![r] = me]
                /\ result' = [result EXCEPT ![r] = Response("invalidToken", 400)]
           ELSE /\ pc' = [pc EXCEPT ![r] = "passwordUpdate"]
                /\ req' = [req EXCEPT ![r] =
                     [me EXCEPT !.record = <<CHOOSE rec \in records : TRUE>>,
                                !.password = newPassword]]
                /\ UNCHANGED result
  /\ UNCHANGED <<store, tx, hist, transferLog, auth>>

(* bcrypt.hash(newPassword, 12); prisma.user.update({where: {id:
   record.userId}, data: {password}}) *)
PasswordUpdate(r) ==
  /\ pc[r] = "passwordUpdate"
  /\ account' = [account EXCEPT ![req[r].record[1].userId].password =
                   HashPassword(req[r].password)]
  /\ pc' = [pc EXCEPT ![r] = "tokenDelete"]
  /\ hist' = [hist EXCEPT ![r].wrote = TRUE]
  /\ UNCHANGED <<store, req, tx, result, transferLog, passwordResetToken, now, session>>

(* prisma.passwordResetToken.delete({where: {id: record.id}}): 204, or the
   row is gone already and the delete throws (500) *)
TokenDelete(r) ==
  /\ pc[r] = "tokenDelete"
  /\ IF req[r].record[1] \in passwordResetToken
     THEN /\ passwordResetToken' = passwordResetToken \ {req[r].record[1]}
          /\ result' = [result EXCEPT ![r] = Response("reset", 204)]
     ELSE /\ UNCHANGED passwordResetToken
          /\ result' = [result EXCEPT ![r] = Response("error", 500)]
  /\ pc' = [pc EXCEPT ![r] = "done"]
  /\ UNCHANGED <<store, req, tx, hist, transferLog, account, now, session>>

NextReset ==
  \/ Tick
  \/ \E r \in Requests :
       \/ \E email \in {Email("alice@gmail.com"), Email("carol@gmail.com")} :
            ResetPasswordRequest(r, email)
       \/ TokenCreate(r)
       \/ \E secret \in Secrets, newPassword \in NewPasswords :
            ResetPassword(r, secret, newPassword)
       \/ PasswordUpdate(r)
       \/ TokenDelete(r)

SpecReset == InitReset /\ [][NextReset]_vars

----------------------------------------------------------------------------
(* Sums over the committed tables *)

RECURSIVE SumField(_, _)
SumField(S, f) ==
  IF S = {} THEN 0
  ELSE LET x == CHOOSE y \in S : TRUE IN x[f] + SumField(S \ {x}, f)

RECURSIVE SumCredits(_)
SumCredits(S) ==
  IF S = {} THEN 0
  ELSE LET x == CHOOSE y \in S : TRUE
       IN (x.totalPrice \div PointUnit) + SumCredits(S \ {x})

ItemsOfProduct(p) == {it \in orderItem : it.productId = p}
ItemsOfOrder(id) == {it \in orderItem : it.orderId = id}
OrdersOfUser(u) == {o \in order : o.userId = u}

----------------------------------------------------------------------------
(* C1: no overselling. Without restocking, the quantities of the committed
   OrderItems of a product never sum to more than its starting stock, and
   no product's stock is ever negative. *)
C1_NoOverselling ==
  \A p \in ProductRows :
    /\ product[p].stock >= 0
    /\ SumField(ItemsOfProduct(p), "quantity") <= InitProduct[p].stock

(* C2: atomicity of createOrder. An attempt that did not commit (in flight,
   rejected or failed inside the transaction) shows no Order and no
   OrderItem; a committed one shows its Order with one OrderItem per line;
   every product's stock is the starting stock minus the committed
   quantities and every balance is the starting balance plus the credits of
   the committed orders and the committed transfers, so nothing of a failed
   attempt is visible. *)
C2_Atomicity ==
  /\ \A r \in Requests :
       IF result[r].kind = "created"
       THEN /\ \E o \in order : o.id = r
            /\ Cardinality(ItemsOfOrder(r)) = Len(result[r].body[1].items)
       ELSE /\ ~\E o \in order : o.id = r
            /\ ItemsOfOrder(r) = {}
  /\ \A p \in ProductRows :
       product[p].stock = InitProduct[p].stock - SumField(ItemsOfProduct(p), "quantity")
  /\ \A u \in Users :
       userPoint[u] = InitPoint + SumCredits(OrdersOfUser(u))
                        + SumField({t \in transferLog : t.to = u}, "amount")
                        - SumField({t \in transferLog : t.from = u}, "amount")

C2_Witness ==
  \E r, q \in Requests :
    /\ req[r].op = "createOrder" /\ result[r].kind = "error" /\ hist[r].rolledBack
    /\ result[q].kind = "created"

(* C3: total consistency. Every committed Order's totalPrice is the sum of
   its OrderItems' totalPrice, and every OrderItem's totalPrice is its
   unitPrice times its quantity. *)
C3_TotalConsistency ==
  /\ \A o \in order : o.totalPrice = SumField(ItemsOfOrder(o.id), "totalPrice")
  /\ \A it \in orderItem : it.totalPrice = it.unitPrice * it.quantity

C3_Witness ==
  \E o \in order :
    /\ Cardinality(ItemsOfOrder(o.id)) = 2
    /\ \E it \in ItemsOfOrder(o.id) : it.quantity = 2

(* C4: point accrual. The step that makes an order of total T visible raises
   the buyer's balance by exactly floor(T / 1000) and reports that number,
   and outside a transfer a balance changes only in a step that makes an
   order visible. *)
C4_PointAccrual ==
  [][/\ \A o \in order' \ order :
          LET k == userPoint'[o.userId] - userPoint[o.userId]
          IN /\ k * PointUnit <= o.totalPrice
             /\ o.totalPrice < (k + 1) * PointUnit
             /\ result'[o.id].body[1].points = k
     /\ (userPoint' # userPoint /\ transferLog' = transferLog) => order' # order
    ]_vars

C4_Witness ==
  \E o \in order :
    /\ o.totalPrice = 2700
    /\ result[o.id].body[1].points = 2
    /\ userPoint[o.userId] = InitPoint + 2

(* C5: no lost or duplicated point credit. Every balance equals the starting
   balance plus floor(total / 1000) of each committed order of that user,
   plus what committed transfers sent to the user, minus what they took. *)
C5_PointLedger ==
  \A u \in Users :
    userPoint[u] - InitPoint =
      SumCredits(OrdersOfUser(u))
      + SumField({t \in transferLog : t.to = u}, "amount")
      - SumField({t \in transferLog : t.from = u}, "amount")

C5_Witness ==
  \E o \in order, t \in transferLog :
    /\ o.totalPrice >= PointUnit
    /\ t.from = o.userId

(* C6: a point balance is never negative. *)
C6_NonNegativePoints == \A u \in Users : userPoint[u] >= 0

(* C7: createOrder answers not-found exactly when fewer non-deleted products
   were resolved than DISTINCT product ids were requested. *)
C7_DistinctExistence ==
  \A r \in Requests :
    (req[r].op = "createOrder" /\ pc[r] # "idle") =>
      ((result[r].kind = "notFound") <=> hist[r].fewer)

(* C8: a createOrder with a line that names a nonexistent or soft-deleted
   product ends at once with the not-found error, whatever its other lines,
   opens no transaction and changes no stock, order, order item or balance. *)
C8_NotFoundRejection ==
  [][\A r \in Requests :
       (pc[r] = "idle" /\ hist'[r].unavailable) =>
         /\ pc'[r] = "done"
         /\ result'[r].kind = "notFound"
         /\ tx'[r] = NoTx
         /\ UNCHANGED store
    ]_vars

C8_Witness ==
  \E r \in Requests :
    /\ hist[r].unavailable /\ hist[r].someValid
    /\ result[r].kind = "notFound"
    /\ pc[r] = "done"

(* C9: a createOrder all of whose products exist and one of whose lines asks
   for more than its product's stock at validation time ends with the
   insufficient-stock error naming the product of the first such line,
   without opening the transaction. *)
C9_InsufficientStockRejection ==
  \A r \in Requests :
    (req[r].op = "createOrder" /\ ~hist[r].unavailable /\ hist[r].short # 0) =>
      /\ pc[r] = "done"
      /\ result[r].kind = "noStock"
      /\ result[r].product = hist[r].short
      /\ tx[r] = NoTx

(* C10: the quantity of a committed OrderItem did not exceed the stock its
   product had in the store just before the line's decrement. *)
C10_QuantityWithinStock ==
  \A it \in orderItem : it.quantity <= it.stockBefore


(* C11: a createOrder whose decrement takes a stock below zero, because a
   concurrent order consumed the stock after this request's validation, does
   not commit: unless the store failed it for another reason, it ends with a
   conflict error. *)
C11_ConflictOnRace ==
  \A r \in Requests :
    hist[r].raced =>
      /\ result[r].kind # "created"
      /\ (pc[r] = "done" /\ result[r].kind # "error") => result[r].kind = "conflict"


(* C12: stock accounting and frame of a committed createOrder. The step that
   makes an order visible lowers each product's stock by exactly the
   quantities of that order's lines, changes no price, no other user's
   balance and no earlier order or order item, and stock changes in no other
   step. End to end: from A (600, stock 5), B (1500, stock 2) and a buyer
   with 0 points, the order 2 x A, 1 x B has totalPrice 2700, earns 2 points
   and leaves A.stock 3, B.stock 1 and the buyer with 2 points. *)
C12_StockAccounting ==
  [][/\ \A o \in order' \ order :
          LET its == {it \in orderItem' : it.orderId = o.id}
              lines == result'[o.id].body[1].items
          IN /\ \A p \in ProductRows :
                  /\ product'[p].stock =
                       product[p].stock - SumField({it \in its : it.productId = p}, "quantity")
                  /\ product'[p].price = product[p].price
                  /\ product'[p].deleted = product[p].deleted
             /\ \A u \in Users \ {o.userId} : userPoint'[u] = userPoint[u]
             /\ order' = order \cup {o}
             /\ orderItem' = orderItem \cup its
             /\ orderItem \cap its = {}
             /\ ( /\ product[1].stock = 5 /\ product[2].stock = 2
                  /\ userPoint[o.userId] = 0
                  /\ Len(lines) = 2
                  /\ lines[1].productId = 1 /\ lines[1].quantity = 2
                  /\ lines[2].productId = 2 /\ lines[2].quantity = 1 )
                => /\ o.totalPrice = 2700
                   /\ result'[o.id].body[1].points = 2
                   /\ product'[1].stock = 3
                   /\ product'[2].stock = 1
                   /\ userPoint'[o.userId] = 2
     /\ product' # product => order' # order
    ]_vars

C12_Witness ==
  \E o \in order :
    /\ order = {o}
    /\ o.totalPrice = 2700
    /\ {[productId |-> it.productId, quantity |-> it.quantity] : it \in ItemsOfOrder(o.id)}
         = {[productId |-> 1, quantity |-> 2], [productId |-> 2, quantity |-> 1]}
    /\ product[1].stock = 3
    /\ product[2].stock = 1
    /\ userPoint[o.userId] = 2


(* C13: unit price snapshot. Every order item, pending in a transaction or
   committed, carries as unitPrice the product price read when its request
   was validated, whatever updateProduct did to the price since; and a
   committed order item is never changed or removed by any later step. *)
C13_UnitPriceSnapshot ==
  /\ [](/\ \A it \in orderItem : it.unitPrice = hist[it.orderId].priceAt[it.productId]
        /\ \A r \in Requests : \A i \in 1..Len(tx[r].items) :
             tx[r].items[i].unitPrice = hist[r].priceAt[tx[r].items[i].productId])
  /\ [][\A it \in orderItem : it \in orderItem']_vars

C13_Witness ==
  \E it \in orderItem :
    /\ it.unitPrice # product[it.productId].price
    /\ it.totalPrice = it.unitPrice * it.quantity
    /\ \E r \in Requests : result[r].kind = "updated" /\ result[r].product = it.productId


(* C14: self-transfer guard. A transferPoint whose receiver is the
   authenticated sender never gets past the guards: it stages no write, no
   transfer of it is ever committed, and it ends with a 400 response. *)
C14_SelfTransferGuard ==
  \A r \in Requests :
    hist[r].self =>
      /\ pc[r] \in {"findReceiver", "done"}
      /\ tx[r] = NoTx
      /\ \A t \in transferLog : t.req # r
      /\ pc[r] = "done" =>
           /\ result[r].status = 400
           /\ result[r].kind \in {"invalid", "selfTransfer"}

C14_Witness ==
  \E r \in Requests :
    /\ hist[r].self
    /\ pc[r] = "done"
    /\ result[r].kind = "selfTransfer"

(* C15: balance guard. A transferPoint whose amount exceeds the balance the
   handler reads for the sender never gets past the guards: it stages no
   write to the sender or the receiver, no transfer of it is ever committed,
   and it ends with a 400 response. *)
C15_BalanceGuard ==
  \A r \in Requests :
    hist[r].overdraw =>
      /\ pc[r] \in {"findReceiver", "done"}
      /\ tx[r].point = NoTx.point /\ ~tx[r].open
      /\ \A t \in transferLog : t.req # r
      /\ pc[r] = "done" =>
           /\ result[r].status = 400
           /\ result[r].kind \in {"userNotFound", "selfTransfer", "insufficientPoints"}

C15_Witness ==
  \E r \in Requests :
    /\ hist[r].overdraw
    /\ pc[r] = "done"
    /\ result[r].kind = "insufficientPoints"


RECURSIVE TotalPoints(_, _)
TotalPoints(pts, S) ==
  IF S = {} THEN 0
  ELSE LET u == CHOOSE x \in S : TRUE IN pts[u] + TotalPoints(pts, S \ {u})

(* C16: a successful transferPoint is one atomic step on the store: the step
   that commits a transfer debits the sender by amount and credits the
   receiver by the same amount, touches no other balance, leaves the sum of
   all balances unchanged, and answers with both balances as they are after
   the step; a transfer that does not commit changes no balance (balances
   change otherwise only when an order commits). *)
C16_AtomicTransfer ==
  [][/\ \A t \in transferLog' \ transferLog :
          /\ t.from # t.to
          /\ userPoint'[t.from] = userPoint[t.from] - t.amount
          /\ userPoint'[t.to] = userPoint[t.to] + t.amount
          /\ \A u \in Users \ {t.from, t.to} : userPoint'[u] = userPoint[u]
          /\ TotalPoints(userPoint', Users) = TotalPoints(userPoint, Users)
          /\ result'[t.req].kind = "transferred"
          /\ result'[t.req].body[1].sender = userPoint'[t.from]
          /\ result'[t.req].body[1].receiver = userPoint'[t.to]
     /\ \A r \in Requests :
          (result'[r].kind = "transferred" /\ result[r].kind # "transferred")
            => \E t \in transferLog' \ transferLog : t.req = r
     /\ (userPoint' # userPoint /\ transferLog' = transferLog) => order' # order
    ]_vars

C16_Witness ==
  \E t \in transferLog :
    /\ result[t.req].kind = "transferred"
    /\ result[t.req].body[1].sender = InitPoint - t.amount
    /\ result[t.req].body[1].receiver = InitPoint + t.amount
    /\ userPoint[t.from] = InitPoint - t.amount
    /\ userPoint[t.to] = InitPoint + t.amount


(* C17: the order total is written exactly once. A pending order has
   totalPrice 0 until its single total update; that update happens only when
   every line's order item has been created, takes the total from 0 and
   never below it; and once an order is committed it never changes. *)
C17_TotalWrittenOnce ==
  /\ [](\A r \in Requests : tx[r].order # <<>> =>
          LET log == tx[r].log
              totals == {k \in 1..Len(log) : log[k].op = "total"}
              creates == {k \in 1..Len(log) : log[k].op = "create"}
          IN /\ Cardinality(totals) <= 1
             /\ totals = {} => tx[r].order[1].totalPrice = 0
             /\ \A k \in totals :
                  /\ \A c \in creates : c < k
                  /\ Cardinality(creates) = Len(req[r].items)
                  /\ Len(tx[r].items) = Len(req[r].items))
  /\ [][/\ \A r \in Requests :
             (tx[r].order # <<>> /\ tx'[r].order # <<>>
                /\ tx'[r].order[1].totalPrice # tx[r].order[1].totalPrice)
             => /\ tx[r].order[1].totalPrice = 0
                /\ tx'[r].order[1].totalPrice > 0
                /\ Len(tx[r].items) = Len(req[r].items)
                /\ tx'[r].items = tx[r].items
        /\ \A o \in order : o \in order'
        /\ \A o \in order' \ order : \A q \in order : q.id # o.id
       ]_vars

C17_Witness ==
  \E r \in Requests :
    /\ tx[r].order # <<>>
    /\ Len(req[r].items) = 2
    /\ tx[r].order[1].totalPrice > 0
    /\ \E o \in order : o.id # r /\ o.totalPrice > 0


(* C18: line processing order inside the transaction, as claimed: whenever a
   line's stock decrement has run, every earlier line's stock decrement and
   every earlier line's order item creation have run before it. *)
C18_LinesOneAfterAnother ==
  \A r \in Requests :
    LET log == tx[r].log
    IN \A k \in 1..Len(log) :
         log[k].op = "update" =>
           \A i \in 1..(log[k].line - 1) :
             /\ \E k1 \in 1..(k - 1) : log[k1] = [op |-> "update", line |-> i]
             /\ \E k2 \in 1..(k - 1) : log[k2] = [op |-> "create", line |-> i]

(* C18, amended: the lines' stock decrements run in input order, and each
   line's order item is created after that line's own stock decrement. *)
C18_DecrementsInOrder ==
  \A r \in Requests :
    LET log == tx[r].log
    IN \A k \in 1..Len(log) :
         /\ log[k].op = "update" =>
              \A i \in 1..(log[k].line - 1) :
                \E k1 \in 1..(k - 1) : log[k1] = [op |-> "update", line |-> i]
         /\ log[k].op = "create" =>
              \E k1 \in 1..(k - 1) : log[k1] = [op |-> "update", line |-> log[k].line]

C18_Witness ==
  \E r \in Requests :
    /\ Len(req[r].items) = 2
    /\ Len(tx[r].log) >= 3
    /\ tx[r].log[1] = [op |-> "update", line |-> 1]
    /\ tx[r].log[2] = [op |-> "update", line |-> 2]
    /\ tx[r].log[3] = [op |-> "create", line |-> 1]


(* C19: input validation of createOrder. A request whose item list is empty,
   or has a line whose productId or quantity is not a positive integer, is
   answered in its first step with the validation error (400): it carries no
   product lookup result, opens no transaction, and the step leaves the
   store unchanged. *)
C19_InputValidation ==
  [][\A r \in Requests :
       (pc[r] = "idle" /\ hist'[r].invalid) =>
         /\ pc'[r] = "done"
         /\ result'[r] = Response("invalid", 400)
         /\ req'[r].products = {} /\ req'[r].items = <<>>
         /\ tx'[r] = NoTx
         /\ UNCHANGED store
    ]_vars

C19_Witness ==
  \E r \in Requests :
    /\ hist[r].invalid
    /\ result[r] = Response("invalid", 400)
    /\ order # {}


(* C20: the result matches the persisted state. On the step that commits an
   order, the returned order has the stored order's totalPrice, its points
   are what the step adds to the buyer's balance, and its items are, line by
   line in input order, the request's lines (same productId and quantity)
   and the order's committed item rows; a 201 is answered by no other step. *)
C20_ResultMatchesStore ==
  [][/\ \A o \in order' \ order :
          LET b == result'[o.id].body[1]
              lines == req[o.id].items
              rows == {it \in orderItem' : it.orderId = o.id}
          IN /\ result'[o.id].kind = "created"
             /\ b.id = o.id /\ b.userId = o.userId
             /\ b.totalPrice = o.totalPrice
             /\ b.points = userPoint'[o.userId] - userPoint[o.userId]
             /\ Len(b.items) = Len(lines)
             /\ Cardinality(rows) = Len(lines)
             /\ \A i \in 1..Len(lines) :
                  /\ b.items[i].productId = lines[i].productId
                  /\ b.items[i].quantity = lines[i].quantity
                  /\ \E it \in rows :
                       /\ it.line = i
                       /\ it.productId = b.items[i].productId
                       /\ it.quantity = b.items[i].quantity
                       /\ it.unitPrice = b.items[i].unitPrice
                       /\ it.totalPrice = b.items[i].totalPrice
     /\ \A r \in Requests :
          (result'[r].kind = "created" /\ result[r].kind # "created")
            => \E o \in order' \ order : o.id = r
    ]_vars

C20_Witness ==
  \E r \in Requests : \E o \in order :
    /\ o.id = r
    /\ result[r].kind = "created"
    /\ Len(result[r].body[1].items) = 2
    /\ result[r].body[1].totalPrice = o.totalPrice
    /\ result[r].body[1].points > 0

----------------------------------------------------------------------------
(* C21: no automatic retry. A createOrder request enters its transaction at
   most once: after it has left the first statement of the transaction it
   never starts one again; once it has answered (also with 500 after a
   rollback) it takes no further step, so it writes nothing more; and the
   step that commits its order finds no order of the same request in the
   store, so a request never commits more than one Order. *)
C21_NoRetry ==
  /\ [](\A r \in Requests : Cardinality({o \in order : o.id = r}) <= 1)
  /\ [][\A r \in Requests :
          /\ (req[r].op = "createOrder" /\ pc[r] # "orderCreate") => pc'[r] # "orderCreate"
          /\ (req[r].op = "createOrder" /\ ~tx[r].open /\ tx'[r].open)
               => pc[r] = "orderCreate"
          /\ pc[r] = "done"
               => /\ pc'[r] = "done"
                  /\ tx'[r] = NoTx
                  /\ result'[r] = result[r]
                  /\ {o \in order' : o.id = r} = {o \in order : o.id = r}
          /\ (pc[r] = "commit" /\ pc'[r] = "done" /\ result'[r].kind = "created")
               => {o \in order : o.id = r} = {}]_vars

(* a createOrder request was rolled back after it had written, it answered
   500, and the other request went on to commit an order *)
C21_Witness ==
  \E r \in Requests :
    /\ req[r].op = "createOrder"
    /\ pc[r] = "done"
    /\ result[r].status = 500
    /\ hist[r].rolledBack
    /\ \E o \in Requests \ {r} : result[o].kind = "created"

----------------------------------------------------------------------------
(* C22: amount validation of transferPoint. A transferPoint whose amount is
   not a positive integer (0, -1, 1.5, a string, absent) is answered in its
   first step with the validation error (400): the request holds no balance
   read from the User table, opens no transaction, never stages or commits a
   transfer, and the step leaves every balance and the rest of the store
   unchanged. *)
C22_AmountValidation ==
  /\ [](\A r \in Requests :
          hist[r].badAmount =>
            /\ pc[r] = "done"
            /\ result[r] = Response("invalid", 400)
            /\ tx[r] = NoTx
            /\ \A t \in transferLog : t.req # r)
  /\ [][\A r \in Requests :
          (pc[r] = "idle" /\ hist'[r].badAmount) =>
            /\ pc'[r] = "done"
            /\ req'[r] = [NoReq EXCEPT !.op = "transferPoint", !.user = req'[r].user]
            /\ userPoint' = userPoint
            /\ UNCHANGED store
    ]_vars

(* a transfer whose amount is not a positive integer was refused while the
   sender held two points or more *)
C22_Witness ==
  \E r \in Requests :
    /\ hist[r].badAmount
    /\ req[r].op = "transferPoint"
    /\ result[r] = Response("invalid", 400)
    /\ userPoint[req[r].user] >= 2

----------------------------------------------------------------------------
(* C25: soft-delete race. The step that commits an order finds every product
   of the order's items on sale (not soft-deleted) in the store, for every
   interleaving of deleteProduct with the validation and the transaction of
   createOrder. *)
C25_NoOrderOfDeletedProduct ==
  [][\A r \in Requests :
       (pc[r] = "commit" /\ result'[r].kind = "created") =>
         \A i \in 1..Len(tx[r].items) : ~product[tx[r].items[i].productId].deleted
    ]_vars

----------------------------------------------------------------------------
(* C26: order visibility. Whatever the price filters, the sort and the
   pagination parameters are (none included), the listing getOrders answers
   to a caller whose role is not ADMIN holds only orders of the caller, its
   total counts only such orders, and the whole answer is one the same
   request gets from a store that holds the caller's orders and nothing
   else: it does not depend on the orders of other users. *)
C26_OrderVisibility ==
  \A r \in Requests :
    (req[r].op = "getOrders" /\ result[r].kind = "orders" /\ hist[r].caller.role # "ADMIN")
      => LET answer == result[r].body[1]
             own == {o \in order : o.userId = hist[r].caller.id}
             ownItems == {it \in orderItem : \E o \in own : it.orderId = o.id}
         IN /\ \A i \in 1..Len(answer.data) :
                 /\ answer.data[i].userId = hist[r].caller.id
                 /\ \E o \in own : o.id = answer.data[i].id
            /\ answer.total <= Cardinality(own)
            /\ answer \in GetOrdersAnswers(hist[r].caller, hist[r].query[1], own, ownItems)

(* a USER listed their orders while the table held an order of the other
   user too, and got their own order and a total of one *)
C26_Witness ==
  \E r \in Requests :
    /\ req[r].op = "getOrders"
    /\ hist[r].caller.role = "USER"
    /\ result[r].kind = "orders"
    /\ \E o \in order : o.userId # hist[r].caller.id
    /\ Len(result[r].body[1].data) = 1
    /\ result[r].body[1].total = 1

----------------------------------------------------------------------------
(* C28: every register request is answered. Once a register request has
   started it eventually has its one response: 201, 400, 409, or an error
   response when the store fails otherwise. *)
C28_RegisterAnswered ==
  \A r \in Requests : (req[r].op = "register") ~> (result[r].kind # "none")

----------------------------------------------------------------------------
UserOfEmail(email) == {u \in DOMAIN account : account[u].email = email}

(* C27: deactivation blocks login. A user's deletedAt is set by the
   deactivate handlers and cleared only by the update step of activateUser.
   While it is set, every login that looks the user up is answered 404 (user
   not found), and a login is answered 200 only for a user its lookup found
   active. activateUser reaches its update only when its lookup found the
   user deactivated; for an active or absent user it is answered 404. *)
C27_DeactivationBlocksLogin ==
  [][/\ \A r \in Requests :
          /\ (pc[r] = "idle" /\ req'[r].op = "login" /\ result'[r].kind # "invalid"
              /\ \A u \in UserOfEmail(req'[r].email) : account[u].deleted)
               => /\ pc'[r] = "done"
                  /\ result'[r] = Response("userNotFound", 404)
          /\ (pc[r] = "idle" /\ pc'[r] = "verify") => ~account[req'[r].user].deleted
          /\ (result[r].kind = "none" /\ result'[r].kind = "loggedIn") => pc[r] = "verify"
          /\ (pc[r] = "idle" /\ req'[r].op = "activateUser")
               => IF req'[r].user \in DOMAIN account /\ account[req'[r].user].deleted
                  THEN pc'[r] = "activate"
                  ELSE pc'[r] = "done" /\ result'[r].status \in {400, 404}
          /\ (result[r].kind = "none" /\ result'[r].kind = "activated")
               => pc[r] = "activate"
     /\ \A u \in DOMAIN account :
          /\ (~account[u].deleted /\ account'[u].deleted) =>
               \E r \in Requests :
                 /\ pc[r] = "idle"
                 /\ req'[r].op \in {"deactivateSelf", "deactivateUser"}
                 /\ req'[r].user = u
                 /\ result'[r] = Response("deactivated", 200)
          /\ (account[u].deleted /\ ~account'[u].deleted) =>
               \E r \in Requests :
                 /\ pc[r] = "activate"
                 /\ req[r].user = u
                 /\ result'[r] = Response("activated", 200)
    ]_vars

(* alice was deactivated by one request and the other request's login with
   her address and password was then answered 404 *)
C27_Witness ==
  \E r, o \in Requests :
    /\ req[o].op \in {"deactivateSelf", "deactivateUser"}
    /\ req[o].user = 1
    /\ result[o] = Response("deactivated", 200)
    /\ account[1].deleted
    /\ req[r].op = "login"
    /\ req[r].email = account[1].email
    /\ result[r] = Response("userNotFound", 404)

----------------------------------------------------------------------------
(* C23: the password reset token is single-use. No two resetPassword
   requests change a password with the same token record: of two calls that
   present one token, at most one gets as far as writing the password. *)
C23_TokenSingleUse ==
  \A r, o \in Requests :
    (r # o /\ hist[r].wrote /\ hist[o].wrote) => req[r].record # req[o].record

----------------------------------------------------------------------------
(* C24: role gate. On a route guarded by authorize(["ADMIN"]) a request
   with no token or a token that does not verify is answered 401, one with
   a valid token of another role is answered 403, in both cases in one step
   that runs no controller and changes no table; a controller has run only
   for a request that carries a valid ADMIN token. *)
ValidToken(r) == session[r].present /\ session[r].verifies

IsAdmin(r) == ValidToken(r) /\ session[r].role = "ADMIN"

C24_RoleGate ==
  /\ [](\A r \in Requests : req[r].op # "none" => IsAdmin(r))
  /\ [][\A r \in Requests :
          (pc[r] = "idle" /\ pc'[r] # "idle" /\ ~IsAdmin(r)) =>
            /\ pc'[r] = "done"
            /\ result'[r].status = (IF ValidToken(r) THEN 403 ELSE 401)
            /\ req'[r] = NoReq
            /\ UNCHANGED <<store, tx, hist, transferLog, auth>>
       ]_vars

C24_Witness ==
  \E r, o \in Requests :
    /\ ~ValidToken(r) /\ result[r].status = 401
    /\ ValidToken(o) /\ session[o].role = "USER" /\ result[o].status = 403

====
